---- MODULE Spec2Model ----
(***************************************************************************)
(* A model of the fixedstr crate's circular-queue string cstr<N>           *)
(* (src/src/circular_string.rs) and of its adaptive wrapper Flexstr<N>     *)
(* (src/src/flexible_string.rs, over tstr<N> of src/src/tiny_internal.rs). *)
(*                                                                         *)
(* Strings are sequences of bytes (1-based, as TLA+ sequences are); the    *)
(* backing arrays are functions over 0..N-1, as in the source.  A char is  *)
(* the sequence of its UTF-8 bytes.  Every operation of the source is a    *)
(* pure operator, named as in the source, from the receiver (and the       *)
(* arguments) to a record [self, ret, panic]; the actions apply them to    *)
(* the one value the client holds.                                         *)
(***************************************************************************)
EXTENDS Integers, Sequences, FiniteSets, TLC

\* ------------------------------------------------------------------ bounds
\* largest capacity N of a cstr<N> the model instantiates
MaxCap == 4
\* longest string slice handed to an operation of cstr
MaxStr == 3
\* longest pattern handed to the substring searches of cstr
MaxPat == 3

\* the count of wrap-arounds of front saturates here
MaxWraps == 2

\* largest N of a Flexstr<N> the model instantiates
MaxFlexN == 4
\* most chars in a string slice handed to an operation of Flexstr
MaxFlexChars == 3
\* an append to a Flexstr is taken only while the result has at most this
\* many bytes
MaxFlexLen == 6

\* the N above 256 that a Flexstr<N> is also instantiated with
BigFlexN == 257
\* the byte length of the long string handed to a Flexstr<N> with N > 256, so
\* that lengths around 256 happen
FillLen == 254
\* most bytes in the other strings handed to a Flexstr<N> with N > 256, and
\* most bytes such a Flexstr grows by, from empty or from the long string
MaxBigGrow == 2

\* how far the front of a compared value is moved back at most
MaxRot == 2

\* the number of calls made on a cstr of the largest capacity
MaxWideSteps == 2

\* u16 arithmetic: front and len are u16 fields
U16 == 65536

\* the largest capacity of a cstr
WideN == 65535

\* the single-byte characters the cstr inputs are written in: ' ' and 'a'
Alphabet == {32, 97}

RECURSIVE StrsUpTo(_)
StrsUpTo(n) ==
    IF n = 0 THEN {<<>>}
    ELSE LET shorter == StrsUpTo(n - 1)
         IN  shorter \cup {Append(s, b) : s \in shorter, b \in Alphabet}

Strs == StrsUpTo(MaxStr)
Pats == StrsUpTo(MaxPat)

\* chars handed to push_char, push_char_front and set: ' ', 'a' and the
\* two-byte U+00E9
Chars == {<<32>>, <<97>>, <<195, 169>>}

\* predicates handed to find/rfind, each given by the bytes it accepts
Preds == {{32}, {97}, {32, 97}, {}}

Min(a, b) == IF a < b THEN a ELSE b

\* ------------------------------------------------- core/alloc primitives
\* Option<T>
None == [some |-> FALSE, val |-> 0]
Some(v) == [some |-> TRUE, val |-> v]

\* &s[lo..hi] of a byte string, 0-based and half-open
Slice(s, lo, hi) == SubSeq(s, lo + 1, hi)

\* &a[lo..hi] of an array, as a byte string
ArraySlice(a, lo, hi) == [i \in 1..(hi - lo) |-> a[lo + i - 1]]

\* str::starts_with and str::ends_with
starts_with(h, p) == Len(p) <= Len(h) /\ SubSeq(h, 1, Len(p)) = p
ends_with(h, p) == Len(p) <= Len(h) /\ SubSeq(h, Len(h) - Len(p) + 1, Len(h)) = p

\* the byte offsets at which p occurs in h
Occurrences(h, p) ==
    {i \in 0..(Len(h) - Len(p)) : SubSeq(h, i + 1, i + Len(p)) = p}

SetMin(S) == CHOOSE x \in S : \A y \in S : x <= y
SetMax(S) == CHOOSE x \in S : \A y \in S : x >= y

\* str::find(&str): the first occurrence
str_find(h, p) ==
    IF Occurrences(h, p) = {} THEN None ELSE Some(SetMin(Occurrences(h, p)))

\* the offsets of the chars of h that satisfy the predicate P
Satisfying(h, P) == {i \in 0..(Len(h) - 1) : h[i + 1] \in P}

\* str::find(predicate) and str::rfind(predicate)
str_find_pred(h, P) ==
    IF Satisfying(h, P) = {} THEN None ELSE Some(SetMin(Satisfying(h, P)))
str_rfind_pred(h, P) ==
    IF Satisfying(h, P) = {} THEN None ELSE Some(SetMax(Satisfying(h, P)))

\* char::is_whitespace on the bytes of the alphabet
is_whitespace(b) == b = 32
NonWhite == {b \in Alphabet \cup {0} : ~is_whitespace(b)}

\* char::len_utf8
len_utf8(c) == Len(c)

\* ------------------------------------------------------------------ cstr
\* what a call gives back: the receiver afterwards, the returned value and
\* whether the call panicked (the receiver is then as before the call)
Returned(c, v) == [self |-> c, ret |-> v, panic |-> FALSE]
Panicked(c) == [self |-> c, ret |-> <<>>, panic |-> TRUE]

\* Default for cstr<N>, also cstr::new
cstr_default(N) ==
    [N |-> N, chrs |-> [i \in 0..(N - 1) |-> 0], front |-> 0, len |-> 0]

index(self, i) == (self.front + i) % self.N

index16(self, i) == ((self.front + i) % U16) % (self.N % U16)

\* whether the u16 addition self.front + i overflows: a panic in a build with
\* overflow checks, the wrapped sum otherwise
index16_overflows(self, i) == self.front + i >= U16

endi(self) == (self.front + self.len) % self.N

is_contiguous(self) == self.front + self.len <= self.N

\* to_strs with the two segments exchanged
to_strs_swapped(self) ==
    IF self.len = 0 THEN <<<<>>, <<>>>>
    ELSE IF is_contiguous(self)
         THEN <<<<>>, ArraySlice(self.chrs, self.front, self.front + self.len)>>
         ELSE <<ArraySlice(self.chrs, 0, endi(self)),
                ArraySlice(self.chrs, self.front, self.N)>>

to_strs(self) ==
    IF self.len = 0 THEN <<<<>>, <<>>>>
    ELSE IF is_contiguous(self)
         THEN <<ArraySlice(self.chrs, self.front, self.front + self.len), <<>>>>
         ELSE <<ArraySlice(self.chrs, self.front, self.N),
                ArraySlice(self.chrs, 0, endi(self))>>

\* chrs[..length].copy_from_slice(&bytes[..length])
CopyPrefix(chrs, bytes, length) ==
    [i \in DOMAIN chrs |-> IF i < length THEN bytes[i + 1] ELSE chrs[i]]

\* make with the whole length of src recorded, not what fits
make_whole(N, src) ==
    IF N < 1 \/ N > 65535 THEN Panicked(cstr_default(N))
    ELSE LET length == Min(N, Len(src))
             m == cstr_default(N)
         IN  Returned([m EXCEPT !.chrs = CopyPrefix(m.chrs, src, length),
                                !.len = Len(src) % U16], <<>>)

make(N, src) ==
    IF N < 1 \/ N > 65535 THEN Panicked(cstr_default(N))
    ELSE LET length == Min(N, Len(src))
             m == cstr_default(N)
         IN  Returned([m EXCEPT !.chrs = CopyPrefix(m.chrs, src, length),
                                !.len = length % U16], <<>>)

\* m.chrs[..].copy_from_slice(..) panics unless both slices have N bytes
try_make(N, src) ==
    LET length == Len(src)
        m == cstr_default(N)
    IN  IF length > N \/ N > 65535 \/ N < 1
        THEN Returned(m, [ok |-> FALSE, err |-> src])
        ELSE IF length # N THEN Panicked(m)
        ELSE Returned([m EXCEPT !.chrs = CopyPrefix(m.chrs, src, length),
                                !.len = length % U16],
                      [ok |-> TRUE, err |-> <<>>])

\* m.chrs[..].copy_from_slice(..) panics unless both slices have N bytes
make_remainder(N, src) ==
    IF N > 65535 \/ N < 1 THEN Panicked(cstr_default(N))
    ELSE LET m == cstr_default(N)
             length == Min(N, Len(src))
         IN  IF length # N THEN Panicked(m)
             ELSE Returned([m EXCEPT !.chrs = CopyPrefix(m.chrs, src, length),
                                     !.len = length % U16],
                           Slice(src, length, Len(src)))

\* &right.as_bytes()[llen..] panics when llen > rlen, and copy_from_slice
\* panics unless chrs[llen..] and right[llen..] have the same length
from_pair(N, left, right) ==
    LET llen == Len(left)
        rlen == Len(right)
        m == cstr_default(N)
    IN  IF llen + rlen > N \/ N > 65535 \/ N < 1 THEN Returned(m, None)
        ELSE IF llen > rlen \/ N - llen # rlen - llen THEN Panicked(m)
        ELSE Returned([m EXCEPT !.len = (llen + rlen) % U16,
                                !.chrs = [i \in 0..(N - 1) |->
                                             IF i < llen THEN left[i + 1]
                                             ELSE right[i + 1]]],
                      Some(<<>>))

\* reset that moves front and leaves the bytes where they are
reset_front_only(self) == Returned([self EXCEPT !.front = 0], <<>>)

reset(self) ==
    IF self.front = 0 THEN Returned(self, <<>>)
    ELSE LET mhrs == [i \in 0..(self.N - 1) |->
                         IF i < self.len THEN self.chrs[index(self, i)] ELSE 0]
         IN  Returned([self EXCEPT !.chrs = mhrs, !.front = 0], <<>>)

clear(self) == Returned([self EXCEPT !.len = 0], <<>>)

\* make_contiguous with the test inverted
make_contiguous_inverted(self) ==
    IF is_contiguous(self) THEN reset(self) ELSE Returned(self, <<>>)

make_contiguous(self) ==
    IF ~is_contiguous(self) THEN reset(self) ELSE Returned(self, <<>>)

set(self, n, c) ==
    IF len_utf8(c) > 1 \/ n >= self.len THEN Returned(self, FALSE)
    ELSE Returned([self EXCEPT !.chrs[index(self, n)] = c[1]], TRUE)

\* the while loop of push_str, from iteration i on
RECURSIVE push_str_loop(_, _, _, _)
push_str_loop(self, bytes, slen, i) ==
    IF i < Len(bytes) /\ i + slen < self.N
    THEN push_str_loop([self EXCEPT !.chrs[index(self, slen + i)] = bytes[i + 1]],
                       bytes, slen, i + 1)
    ELSE [self |-> self, i |-> i]

\* push_str with len advanced by the whole of src, not by what was written
push_str_overlen(self, src) ==
    LET srclen == Len(src)
        slen == self.len
        remain == IF self.N > slen + srclen THEN 0 ELSE (srclen + slen) - self.N
        done == push_str_loop(self, src, slen, 0)
    IN  Returned([done.self EXCEPT !.len = (slen + srclen) % U16],
                 Slice(src, srclen - remain, srclen))

push_str(self, src) ==
    LET srclen == Len(src)
        slen == self.len
        remain == IF self.N > slen + srclen THEN 0 ELSE (srclen + slen) - self.N
        done == push_str_loop(self, src, slen, 0)
    IN  Returned([done.self EXCEPT !.len = (slen + done.i) % U16],
                 Slice(src, srclen - remain, srclen))

\* the while loop of push_front, from iteration i on
RECURSIVE push_front_loop(_, _, _, _)
push_front_loop(self, bytes, slen, i) ==
    IF i < Len(bytes) /\ i + slen < self.N
    THEN LET newfront == ((self.front + self.N - 1) % self.N) % U16
         IN  push_front_loop([self EXCEPT !.front = newfront,
                                          !.chrs[newfront] = bytes[Len(bytes) - i]],
                             bytes, slen, i + 1)
    ELSE [self |-> self, i |-> i]

\* push_front returning the end of src, as push_str does, not its start
push_front_suffix(self, src) ==
    LET srclen == Len(src)
        slen == self.len
        remain == IF self.N >= slen + srclen THEN 0 ELSE (srclen + slen) - self.N
        done == push_front_loop(self, src, slen, 0)
    IN  Returned([done.self EXCEPT !.len = (slen + done.i) % U16],
                 Slice(src, srclen - remain, srclen))

\* push_front writing the bytes of src first to last, so that they end up
\* reversed
RECURSIVE push_front_forward_loop(_, _, _, _)
push_front_forward_loop(self, bytes, slen, i) ==
    IF i < Len(bytes) /\ i + slen < self.N
    THEN LET newfront == ((self.front + self.N - 1) % self.N) % U16
         IN  push_front_forward_loop([self EXCEPT !.front = newfront,
                                                  !.chrs[newfront] = bytes[i + 1]],
                                     bytes, slen, i + 1)
    ELSE [self |-> self, i |-> i]

push_front_forward(self, src) ==
    LET srclen == Len(src)
        slen == self.len
        remain == IF self.N >= slen + srclen THEN 0 ELSE (srclen + slen) - self.N
        done == push_front_forward_loop(self, src, slen, 0)
    IN  Returned([done.self EXCEPT !.len = (slen + done.i) % U16],
                 Slice(src, 0, remain))

push_front(self, src) ==
    LET srclen == Len(src)
        slen == self.len
        remain == IF self.N >= slen + srclen THEN 0 ELSE (srclen + slen) - self.N
        done == push_front_loop(self, src, slen, 0)
    IN  Returned([done.self EXCEPT !.len = (slen + done.i) % U16],
                 Slice(src, 0, remain))

push_char(self, c) ==
    LET clen == len_utf8(c)
    IN  IF clen > 1 \/ self.len + clen > self.N THEN Returned(self, FALSE)
        ELSE Returned(push_str(self, c).self, TRUE)

push_char_front(self, c) ==
    LET clen == len_utf8(c)
        newfront == (self.front + self.N - 1) % self.N
    IN  IF clen > 1 \/ self.len + clen > self.N THEN Returned(self, FALSE)
        ELSE Returned([self EXCEPT !.chrs[newfront] = c[1],
                                   !.front = newfront % U16,
                                   !.len = (self.len + 1) % U16], TRUE)

pop_char(self, overflow_checks) ==
    IF self.len = 0 THEN Returned(self, None)
    ELSE IF overflow_checks /\ self.front + self.len >= U16 THEN Panicked(self)
    ELSE LET lasti == ((self.front + self.len - 1) % U16) % self.N
         IN  Returned([self EXCEPT !.len = self.len - 1], Some(self.chrs[lasti]))

\* pop_char_front with front left where it was
pop_char_front_stay(self) ==
    IF self.len = 0 THEN Returned(self, None)
    ELSE Returned([self EXCEPT !.len = self.len - 1], Some(self.chrs[self.front]))

\* pop_char_front with the wrap-around of front forgotten
pop_char_front_nowrap(self) ==
    IF self.len = 0 THEN Returned(self, None)
    ELSE Returned([self EXCEPT !.front = (self.front + 1) % U16,
                               !.len = self.len - 1],
                  Some(self.chrs[self.front]))

pop_char_front(self) ==
    IF self.len = 0 THEN Returned(self, None)
    ELSE Returned([self EXCEPT !.front = index16(self, 1), !.len = self.len - 1],
                  Some(self.chrs[self.front]))

truncate_right(self, n) ==
    IF n < self.len THEN Returned([self EXCEPT !.len = n % U16], <<>>)
    ELSE Returned(self, <<>>)

truncate(self, n) == truncate_right(self, n)

\* truncate_left with the wrap-around of front forgotten
truncate_left_nowrap(self, n, overflow_checks) ==
    IF n > 0 /\ n <= self.len
    THEN Returned([self EXCEPT !.front = (self.front + n) % U16,
                               !.len = self.len - (n % U16)], <<>>)
    ELSE Returned(self, <<>>)

truncate_left(self, n, overflow_checks) ==
    IF n > 0 /\ n <= self.len
    THEN IF overflow_checks /\ index16_overflows(self, n % U16)
         THEN Panicked(self)
         ELSE Returned([self EXCEPT !.front = index16(self, n % U16),
                                    !.len = self.len - (n % U16)], <<>>)
    ELSE Returned(self, <<>>)

trim_left(self, overflow_checks) ==
    LET a == to_strs(self)[1]
        b == to_strs(self)[2]
        ia == str_find_pred(a, NonWhite)
        kb == str_find_pred(b, NonWhite)
        offset == (IF ia.some THEN ia.val
                   ELSE IF kb.some THEN Len(a) + kb.val
                   ELSE Len(a) + Len(b)) % U16
    IN  IF overflow_checks /\ index16_overflows(self, offset)
        THEN Panicked(self)
        ELSE Returned([self EXCEPT !.front = index16(self, offset),
                                   !.len = self.len - offset], <<>>)

trim_right(self) ==
    LET a == to_strs(self)[1]
        b == to_strs(self)[2]
        ka == str_rfind_pred(a, NonWhite)
        ib == str_rfind_pred(b, NonWhite)
        offset == IF Len(b) = 0
                  THEN (IF ka.some THEN Len(a) - ka.val - 1 ELSE Len(a))
                  ELSE IF ib.some THEN Len(b) - ib.val - 1
                  ELSE IF ka.some THEN Len(b) + (Len(a) - ka.val - 1)
                  ELSE Len(a) + Len(b)
    IN  Returned([self EXCEPT !.len = self.len - (offset % U16)], <<>>)

trim_whitespaces(self, overflow_checks) ==
    LET left == trim_left(self, overflow_checks)
    IN  IF left.panic THEN left ELSE trim_right(left.self)

find(self, P) ==
    LET a == to_strs(self)[1]
        b == to_strs(self)[2]
        pa == str_find_pred(a, P)
        pb == str_find_pred(b, P)
    IN  Returned(self, IF pa.some THEN Some(pa.val)
                       ELSE IF pb.some THEN Some(Len(a) + pb.val)
                       ELSE None)

rfind(self, P) ==
    LET a == to_strs(self)[1]
        b == to_strs(self)[2]
        pb == str_find_pred(b, P)
        pa == str_find_pred(a, P)
    IN  Returned(self, IF pb.some THEN Some(Len(a) + pb.val)
                       ELSE IF pa.some THEN Some(pa.val)
                       ELSE None)

\* the iterations i of the "check middle" loop whose test succeeds: the
\* first mid bytes of s end a and the rest of s starts b
MiddleHits(a, b, s) ==
    {i \in 0..(Len(s) - 2) :
        LET mid == Len(s) - i - 1
        IN  ends_with(a, Slice(s, 0, mid)) /\ starts_with(b, Slice(s, mid, Len(s)))}

\* find_substr scanning each segment on its own, without the middle check
find_substr_segments(self, s) ==
    LET a == to_strs(self)[1]
        b == to_strs(self)[2]
        pa == str_find(a, s)
        pb == str_find(b, s)
    IN  Returned(self,
            IF pa.some THEN Some(pa.val)
            ELSE IF pb.some THEN Some(Len(a) + pb.val)
            ELSE None)

find_substr(self, s) ==
    LET a == to_strs(self)[1]
        b == to_strs(self)[2]
        pa == str_find(a, s)
        pb == str_find(b, s)
        hits == MiddleHits(a, b, s)
    IN  Returned(self,
            IF pa.some THEN Some(pa.val)
            ELSE IF Len(s) > 1 /\ hits # {}
                 THEN Some(Len(a) - (Len(s) - SetMin(hits) - 1))
            ELSE IF pb.some THEN Some(Len(a) + pb.val)
            ELSE None)

rfind_substr(self, s) ==
    LET a == to_strs(self)[1]
        b == to_strs(self)[2]
        pb == str_find(b, s)
        pa == str_find(a, s)
        hits == MiddleHits(a, b, s)
    IN  Returned(self,
            IF pb.some THEN Some(Len(a) + pb.val)
            ELSE IF Len(s) > 1 /\ hits # {}
                 THEN Some(Len(a) - (Len(s) - SetMin(hits) - 1))
            ELSE IF pa.some THEN Some(pa.val)
            ELSE None)

\* to_string: the two segments concatenated
to_string(self) == to_strs(self)[1] \o to_strs(self)[2]

\* substr that copies from the buffer positions, whatever front is
substr_raw(self, start, end, overflow_checks) ==
    LET s == cstr_default(self.N)
    IN  IF end <= start THEN Returned(self, s)
        ELSE IF self.len = 0 /\ overflow_checks THEN Panicked(self)
        ELSE IF (start % U16) > (self.len - 1) % U16 \/ end > self.len
        THEN Returned(self, s)
        ELSE Returned(self,
                      [s EXCEPT !.chrs = [k \in 0..(self.N - 1) |->
                                             IF k < end - start
                                             THEN self.chrs[(start + k) % self.N]
                                             ELSE 0],
                                !.len = (end - start) % U16])

\* self.len - 1 is computed in u16: on the empty string it panics in a build
\* with overflow checks and wraps to 65535 in a build without them
substr(self, start, end, overflow_checks) ==
    LET s == cstr_default(self.N)
    IN  IF end <= start THEN Returned(self, s)
        ELSE IF self.len = 0 /\ overflow_checks THEN Panicked(self)
        ELSE IF (start % U16) > (self.len - 1) % U16 \/ end > self.len
        THEN Returned(self, s)
        ELSE Returned(self,
                      [s EXCEPT !.chrs = [k \in 0..(self.N - 1) |->
                                             IF k < end - start
                                             THEN self.chrs[index(self, start + k)]
                                             ELSE 0],
                                !.len = (end - start) % U16])

\* cstr<M>::resize::<N>: s.chrs[..a.len()] panics when a has more than N
\* bytes, and copy_from_slice panics unless chrs[a.len()..] and b have the
\* same length
resize(self, N) ==
    LET a == to_strs(self)[1]
        b == to_strs(self)[2]
        s == cstr_default(N)
    IN  IF Len(a) > N THEN Panicked(self)
        ELSE IF Len(b) > 0 /\ N - Len(a) # Len(b) THEN Panicked(self)
        ELSE Returned(self,
                      [s EXCEPT !.chrs = [k \in 0..(N - 1) |->
                                             IF k < Len(a) THEN a[k + 1]
                                             ELSE IF Len(b) > 0 THEN b[k - Len(a) + 1]
                                             ELSE 0],
                                !.len = self.len])

reallocate(self, N) ==
    IF self.len < N
    THEN LET r == resize(self, N)
         IN  IF r.panic THEN r ELSE Returned(self, Some(r.ret))
    ELSE Returned(self, None)

\* write_str that writes what fits of s
write_str_partial(self, s) ==
    IF Len(s) + self.len > self.N
    THEN Returned(push_str(self, s).self, "Err")
    ELSE Returned(push_str(self, s).self, "Ok")

\* fmt::Write for cstr<N>
write_str(self, s) ==
    IF Len(s) + self.len > self.N THEN Returned(self, "Err")
    ELSE Returned(push_str(self, s).self, "Ok")

\* the CircCharIter over the two segments; the end of the contiguous segment
\* is computed in u16
cstr_chars(self) ==
    LET contig == is_contiguous(self)
    IN  [first |-> IF contig
                   THEN ArraySlice(self.chrs, self.front,
                                   (self.front + self.len) % U16)
                   ELSE ArraySlice(self.chrs, self.front, self.N),
         second |-> IF contig THEN <<>> ELSE ArraySlice(self.chrs, 0, endi(self)),
         index |-> 0]

\* str::chars on a slice of single-byte chars, as an iterator of the same shape
str_chars(s) == [first |-> s, second |-> <<>>, index |-> 0]

\* Iterator::next of CircCharIter: the iterator afterwards and the item
CircCharIter_next(it) ==
    IF it.index < Len(it.first)
    THEN [it |-> [it EXCEPT !.index = it.index + 1],
          item |-> Some(it.first[it.index + 1])]
    ELSE IF it.index - Len(it.first) < Len(it.second)
    THEN [it |-> [it EXCEPT !.index = it.index + 1],
          item |-> Some(it.second[it.index - Len(it.first) + 1])]
    ELSE [it |-> it, item |-> None]

\* char::cmp
char_cmp(x, y) == IF x < y THEN "Less" ELSE IF x > y THEN "Greater" ELSE "Equal"

\* the loop of cmp and partial_cmp over the two char iterators
RECURSIVE cmp_loop(_, _)
cmp_loop(schars, ochars) ==
    LET s == CircCharIter_next(schars)
        o == CircCharIter_next(ochars)
    IN  IF s.item.some /\ o.item.some
        THEN IF char_cmp(s.item.val, o.item.val) = "Equal"
             THEN cmp_loop(s.it, o.it)
             ELSE char_cmp(s.item.val, o.item.val)
        ELSE IF ~s.item.some /\ ~o.item.some THEN "Equal"
        ELSE IF ~s.item.some THEN "Less"
        ELSE "Greater"

\* Ord for cstr<N>
cmp(self, other) == Returned(self, cmp_loop(cstr_chars(self), cstr_chars(other)))

\* PartialOrd<&str> for cstr<N>
partial_cmp_str(self, other) ==
    Returned(self, Some(cmp_loop(cstr_chars(self), str_chars(other))))

\* the for loop of ==, from iteration i on; self.front + i and other.front + i
\* are u16 additions
RECURSIVE eq_loop(_, _, _, _)
eq_loop(self, other, i, overflow_checks) ==
    IF i >= self.len THEN Returned(self, TRUE)
    ELSE IF overflow_checks /\ (index16_overflows(self, i)
                                \/ index16_overflows(other, i))
    THEN Panicked(self)
    ELSE IF self.chrs[((self.front + i) % U16) % self.N]
            # other.chrs[((other.front + i) % U16) % other.N]
    THEN Returned(self, FALSE)
    ELSE eq_loop(self, other, i + 1, overflow_checks)

\* PartialEq<cstr<M>> for cstr<N>
eq(self, other, overflow_checks) ==
    IF self.len # other.len THEN Returned(self, FALSE)
    ELSE eq_loop(self, other, 0, overflow_checks)

\* PartialEq<&str> for &cstr<N>
eq_str(self, other) ==
    LET a == to_strs(self)[1]
        b == to_strs(self)[2]
        alen == Len(a)
        blen == Len(b)
    IN  Returned(self, /\ alen + blen = Len(other)
                       /\ a = Slice(other, 0, alen)
                       /\ (blen = 0 \/ b = Slice(other, alen, Len(other))))

\* Hash for cstr<N>: the chars fed to the hasher, the last one first
hash(self) ==
    Returned(self, [k \in 1..self.len |-> self.chrs[index(self, self.len - k)]])

\* ------------------------------------------------------------------ UTF-8
\* the chars the Flexstr inputs are written in: 'a', the two-byte U+00E9 and
\* the three-byte U+20AC
FlexChars == {<<97>>, <<195, 169>>, <<226, 130, 172>>}

RECURSIVE FlexStrsUpTo(_)
FlexStrsUpTo(n) ==
    IF n = 0 THEN {<<>>}
    ELSE LET shorter == FlexStrsUpTo(n - 1)
         IN  shorter \cup {s \o c : s \in shorter, c \in FlexChars}

FlexStrs == FlexStrsUpTo(MaxFlexChars)

\* a continuation byte 10xxxxxx of a multi-byte char
is_continuation(b) == b \in 128..191

\* str::is_char_boundary
is_char_boundary(s, n) ==
    n = 0 \/ n = Len(s) \/ (n < Len(s) /\ ~is_continuation(s[n + 1]))

\* the byte offsets str::char_indices yields
char_starts(s) == {i \in 0..(Len(s) - 1) : is_char_boundary(s, i)}

\* the byte length of the char of s that starts at offset bi, read off its
\* leading byte
char_len_at(s, bi) ==
    LET b == s[bi + 1]
    IN  IF b < 128 THEN 1 ELSE IF b < 224 THEN 2 ELSE IF b < 240 THEN 3 ELSE 4

\* str::char_indices().nth(i): offset and byte length of the i-th char,
\* counted from the char that starts at offset bi
RECURSIVE char_indices_from(_, _, _)
char_indices_from(s, bi, i) ==
    IF bi >= Len(s) THEN None
    ELSE IF i = 0 THEN Some([bi |-> bi, clen |-> char_len_at(s, bi)])
    ELSE char_indices_from(s, bi + char_len_at(s, bi), i - 1)

char_indices_nth(s, i) == char_indices_from(s, 0, i)

\* str::char_indices().last(): the offset of the last char, searched
\* backwards from offset i
RECURSIVE char_indices_last(_, _)
char_indices_last(s, i) ==
    IF i = 0 \/ ~is_continuation(s[i + 1]) THEN i
    ELSE char_indices_last(s, i - 1)

\* String::pop: the string without its last char, and that char
String_pop(s) ==
    IF Len(s) = 0 THEN [s |-> s, ch |-> None]
    ELSE LET ci == char_indices_last(s, Len(s) - 1)
         IN  [s |-> SubSeq(s, 1, ci), ch |-> Some(SubSeq(s, ci + 1, Len(s)))]

\* bytes [bi, bi+clen) of s replaced by the bytes of c
ReplaceBytes(s, bi, c) ==
    [k \in 1..Len(s) |-> IF k > bi /\ k <= bi + Len(c) THEN c[k - bi] ELSE s[k]]

\* ------------------------------------------------------------------ tstr
\* a tstr<N> is its array chrs: [u8; N], chrs[0] holding the length
tstr_make(N, s) ==
    LET blen == Len(s)
        limit == Min(N - 1, blen)
        chars == [i \in 0..(N - 1) |->
                     IF i = 0 THEN limit % 256 ELSE IF i <= limit THEN s[i] ELSE 0]
    IN  IF chars[0] = 0 THEN [chars EXCEPT ![0] = blen % 256] ELSE chars

tstr_default(N) == tstr_make(N, <<>>)

tstr_len(t) == t[0]

tstr_to_str(t) == ArraySlice(t, 1, tstr_len(t) + 1)

\* the while loop of push_str, from i: it runs while i < srclen and
\* i + slen + 1 < N, so it stops at i = min(srclen, N - 1 - slen) (or does not
\* run), having written bytes[k] to chrs[slen + k + 1] for every k it passed
tstr_push_str_loop(N, t, bytes, slen, i) ==
    LET stop == IF N - 1 - slen > i THEN Min(Len(bytes), N - 1 - slen) ELSE i
        end == IF stop > i THEN stop ELSE i
    IN  [t |-> [k \in DOMAIN t |->
                   IF k >= slen + i + 1 /\ k <= slen + end THEN bytes[k - slen] ELSE t[k]],
         i |-> end]

\* chrs[0] += i as u8 panics in a build with overflow checks when the sum
\* passes 255, and wraps in a build without them
tstr_push_str(N, t, src, overflow_checks) ==
    LET srclen == Len(src)
        slen == tstr_len(t)
        remain == IF N - 1 >= slen + srclen THEN 0 ELSE (srclen + slen) - N + 1
        done == tstr_push_str_loop(N, t, src, slen, 0)
    IN  IF done.t[0] + (done.i % 256) > 255 /\ overflow_checks
        THEN Panicked(done.t)
        ELSE Returned([done.t EXCEPT ![0] = (@ + (done.i % 256)) % 256],
                      Slice(src, srclen - remain, srclen))

tstr_push(N, t, s, overflow_checks) == tstr_push_str(N, t, s, overflow_checks)

tstr_pop_char(t) ==
    IF tstr_len(t) = 0 THEN Returned(t, None)
    ELSE LET s == tstr_to_str(t)
             ci == char_indices_last(s, Len(s) - 1)
         IN  Returned([t EXCEPT ![0] = ci % 256], Some(SubSeq(s, ci + 1, Len(s))))

tstr_truncate_bytes(t, n) ==
    IF n < t[0]
    THEN IF is_char_boundary(tstr_to_str(t), n)
         THEN Returned([t EXCEPT ![0] = n % 256], <<>>)
         ELSE Panicked(t)
    ELSE Returned(t, <<>>)

tstr_clear(t) == Returned([t EXCEPT ![0] = 0], <<>>)

\* set without the comparison of the two chars' byte lengths
tstr_set_anylen(t, i, c) ==
    LET s == tstr_to_str(t)
        at == char_indices_nth(s, i)
    IN  IF at.some
        THEN Returned([k \in DOMAIN t |->
                          IF k > at.val.bi /\ k <= at.val.bi + len_utf8(c)
                          THEN c[k - at.val.bi] ELSE t[k]], TRUE)
        ELSE Returned(t, FALSE)

tstr_set(t, i, c) ==
    LET s == tstr_to_str(t)
        at == char_indices_nth(s, i)
    IN  IF at.some /\ len_utf8(c) = at.val.clen
        THEN Returned([k \in DOMAIN t |->
                          IF k > at.val.bi /\ k <= at.val.bi + len_utf8(c)
                          THEN c[k - at.val.bi] ELSE t[k]], TRUE)
        ELSE Returned(t, FALSE)

\* --------------------------------------------------------------- Flexstr
\* Strunion<N>
fixed(t) == [tag |-> "fixed", fs |-> t, os |-> <<>>]
owned(s) == [tag |-> "owned", fs |-> <<>>, os |-> s]

Flexstr_make(N, s) ==
    IF Len(s) < N /\ N <= 256 THEN Returned(fixed(tstr_make(N, s)), <<>>)
    ELSE Returned(owned(s), <<>>)

Flexstr_from_string(N, s) ==
    IF Len(s) < N /\ N <= 256 THEN Returned(fixed(tstr_make(N, s)), <<>>)
    ELSE Returned(owned(s), <<>>)

\* From<String> for Flexstr<N>
Flexstr_from(N, s) ==
    IF Len(s) >= N THEN Returned(owned(s), <<>>)
    ELSE Returned(fixed(tstr_make(N, s)), <<>>)

Flexstr_default(N) == fixed(tstr_default(N))

Flexstr_new(N) == Returned(Flexstr_default(N), <<>>)

Flexstr_len(self) ==
    IF self.tag = "fixed" THEN tstr_len(self.fs) ELSE Len(self.os)

Flexstr_to_str(self) ==
    IF self.tag = "fixed" THEN tstr_to_str(self.fs) ELSE self.os

Flexstr_is_fixed(self) == self.tag = "fixed"

Flexstr_is_owned(self) == ~Flexstr_is_fixed(self)

Flexstr_take_string(N, self) ==
    IF self.tag = "owned" THEN Returned(fixed(tstr_default(N)), Some(self.os))
    ELSE Returned(self, None)

Flexstr_set(self, i, c) ==
    IF self.tag = "fixed"
    THEN LET r == tstr_set(self.fs, i, c) IN Returned(fixed(r.self), r.ret)
    ELSE LET at == char_indices_nth(self.os, i)
         IN  IF at.some /\ len_utf8(c) = at.val.clen
             THEN Returned(owned(ReplaceBytes(self.os, at.val.bi, c)), TRUE)
             ELSE Returned(self, FALSE)

\* push_str that, on leaving the fixed representation, keeps only s
Flexstr_push_str_fresh(N, self, s, overflow_checks) ==
    IF self.tag = "fixed" /\ tstr_len(self.fs) + Len(s) < N
    THEN LET r == tstr_push(N, self.fs, s, overflow_checks)
         IN  IF r.panic THEN Panicked(fixed(r.self))
             ELSE Returned(fixed(r.self), TRUE)
    ELSE IF self.tag = "fixed"
    THEN Returned(owned(s), FALSE)
    ELSE Returned(owned(self.os \o s), FALSE)

Flexstr_push_str(N, self, s, overflow_checks) ==
    IF self.tag = "fixed" /\ tstr_len(self.fs) + Len(s) < N
    THEN LET r == tstr_push(N, self.fs, s, overflow_checks)
         IN  IF r.panic THEN Panicked(fixed(r.self))
             ELSE Returned(fixed(r.self), TRUE)
    ELSE IF self.tag = "fixed"
    THEN Returned(owned(tstr_to_str(self.fs) \o s), FALSE)
    ELSE Returned(owned(self.os \o s), FALSE)

\* push that takes an Owned value back to Fixed when the result fits
Flexstr_push_refit(N, self, c, overflow_checks) ==
    LET clen == len_utf8(c)
    IN  IF self.tag = "owned"
        THEN (IF Len(self.os) + clen < N /\ N <= 256
              THEN Returned(fixed(tstr_make(N, self.os \o c)), TRUE)
              ELSE Returned(owned(self.os \o c), FALSE))
        ELSE IF tstr_len(self.fs) + clen >= N
        THEN Returned(owned(tstr_to_str(self.fs) \o c), FALSE)
        ELSE LET r == tstr_push(N, self.fs, c, overflow_checks)
             IN  IF r.panic THEN Panicked(fixed(r.self))
                 ELSE Returned(fixed(r.self), TRUE)

Flexstr_push(N, self, c, overflow_checks) ==
    LET clen == len_utf8(c)
    IN  IF self.tag = "owned" THEN Returned(owned(self.os \o c), FALSE)
        ELSE IF tstr_len(self.fs) + clen >= N
        THEN Returned(owned(tstr_to_str(self.fs) \o c), FALSE)
        ELSE LET r == tstr_push(N, self.fs, c, overflow_checks)
             IN  IF r.panic THEN Panicked(fixed(r.self))
                 ELSE Returned(fixed(r.self), TRUE)

\* str's Ord: the bytes in lexicographic order
RECURSIVE str_cmp(_, _)
str_cmp(a, b) ==
    IF a = <<>> /\ b = <<>> THEN "Equal"
    ELSE IF a = <<>> THEN "Less"
    ELSE IF b = <<>> THEN "Greater"
    ELSE IF char_cmp(Head(a), Head(b)) # "Equal" THEN char_cmp(Head(a), Head(b))
    ELSE str_cmp(Tail(a), Tail(b))

\* PartialEq for tstr<N>: self.as_ref() == other.as_ref()
tstr_eq(t, u) == tstr_to_str(t) = tstr_to_str(u)

\* #[derive(PartialEq)] on Strunion: the same variant with equal fields
Strunion_eq(self, other) ==
    IF self.tag = "fixed" /\ other.tag = "fixed" THEN tstr_eq(self.fs, other.fs)
    ELSE IF self.tag = "owned" /\ other.tag = "owned" THEN self.os = other.os
    ELSE FALSE

\* #[derive(PartialEq)] on Flexstr: the inner fields are equal
Flexstr_eq(self, other) == Strunion_eq(self, other)

\* Ord for Flexstr<N>
Flexstr_cmp(self, other) == str_cmp(Flexstr_to_str(self), Flexstr_to_str(other))

\* fmt::Write for Flexstr<N>
Flexstr_write_str(N, self, s, overflow_checks) ==
    LET r == Flexstr_push_str(N, self, s, overflow_checks)
    IN  IF r.panic THEN r ELSE Returned(r.self, "Ok")

Flexstr_pop(N, self) ==
    IF Flexstr_len(self) = 0 THEN Returned(self, None)
    ELSE IF self.tag = "fixed"
    THEN LET r == tstr_pop_char(self.fs) IN Returned(fixed(r.self), r.ret)
    ELSE IF Len(self.os) > N
    THEN Returned(owned(String_pop(self.os).s), String_pop(self.os).ch)
    ELSE Returned(fixed(tstr_make(N, String_pop(self.os).s)), String_pop(self.os).ch)

\* truncate with a String truncated at the byte, whatever the byte is
Flexstr_truncate_bytewise(N, self, n) ==
    IF self.tag = "fixed" /\ n < tstr_len(self.fs)
    THEN LET r == tstr_truncate_bytes(self.fs, n)
         IN  IF r.panic THEN Panicked(self) ELSE Returned(fixed(r.self), TRUE)
    ELSE IF self.tag = "fixed" THEN Returned(self, TRUE)
    ELSE IF n < N
    THEN IF is_char_boundary(self.os, n)
         THEN Returned(fixed(tstr_make(N, Slice(self.os, 0, n))), TRUE)
         ELSE Panicked(self)
    ELSE IF n < Len(self.os)
    THEN Returned(owned(Slice(self.os, 0, n)), FALSE)
    ELSE Returned(self, FALSE)

Flexstr_truncate(N, self, n) ==
    IF self.tag = "fixed" /\ n < tstr_len(self.fs)
    THEN LET r == tstr_truncate_bytes(self.fs, n)
         IN  IF r.panic THEN Panicked(self) ELSE Returned(fixed(r.self), TRUE)
    ELSE IF self.tag = "fixed" THEN Returned(self, TRUE)
    ELSE IF n < N
    THEN IF is_char_boundary(self.os, n)
         THEN Returned(fixed(tstr_make(N, Slice(self.os, 0, n))), TRUE)
         ELSE Panicked(self)
    ELSE IF n < Len(self.os)
    THEN IF is_char_boundary(self.os, n)
         THEN Returned(owned(Slice(self.os, 0, n)), FALSE)
         ELSE Panicked(self)
    ELSE Returned(self, FALSE)

Flexstr_clear(N, self) ==
    IF self.tag = "fixed" THEN Returned(fixed(tstr_clear(self.fs).self), <<>>)
    ELSE Returned(fixed(tstr_default(N)), <<>>)

\* &s[N-1..] and &s[..N-1] panic when N-1 is not on a char boundary
Flexstr_split_off(N, self) ==
    IF self.tag = "fixed" THEN Returned(self, <<>>)
    ELSE IF N - 1 > Len(self.os) \/ ~is_char_boundary(self.os, N - 1)
    THEN Panicked(self)
    ELSE Returned(fixed(tstr_make(N, Slice(self.os, 0, N - 1))),
                  Slice(self.os, N - 1, Len(self.os)))

\* ----------------------------------------------------------------- state
VARIABLES
    cap,     \* the capacity N of the cstr<N> the client holds
    chrs,    \* cstr.chrs
    front,   \* cstr.front
    len,     \* cstr.len
    pc,      \* the client: "ready" to call, or holding what a call "returned"
    last,    \* the call that returned: operation, arguments, receiver before, result
    shadow,  \* a plain growable string taken through the same pushes and pops
    wraps,   \* how often front has wrapped around the end of the buffer
    trip,    \* a push_front and the front pops that followed it
    flexN,   \* the N of the Flexstr<N> the client holds
    inner,   \* Flexstr.inner
    steps    \* the calls made so far, where the client makes a bounded number

vars == <<cap, chrs, front, len, pc, last, shadow, wraps, trip, flexN, inner, steps>>
ghosts == <<shadow, wraps, trip, steps>>
flex == <<flexN, inner>>

Self == [N |-> cap, chrs |-> chrs, front |-> front, len |-> len]

NoCall == [op |-> "none", arg |-> <<>>, pre |-> cstr_default(1), ret |-> <<>>,
           panic |-> FALSE]
NoTrip == [active |-> FALSE, s |-> <<>>, popped |-> <<>>, front |-> 0, content |-> <<>>]

Init ==
    /\ cap \in 1..MaxCap
    /\ chrs = cstr_default(cap).chrs
    /\ front = 0
    /\ len = 0
    /\ pc = "ready"
    /\ last = NoCall
    /\ shadow = <<>>
    /\ wraps = 0
    /\ steps = 0
    /\ trip = NoTrip
    /\ flexN = 1
    /\ inner = Flexstr_default(1)

\* the client calls op with arg; r is what the call gives back
Call(op, arg, r) ==
    /\ pc = "ready"
    /\ pc' = "returned"
    /\ last' = [op |-> op, arg |-> arg, pre |-> Self, ret |-> r.ret, panic |-> r.panic]
    /\ cap' = r.self.N
    /\ chrs' = r.self.chrs
    /\ front' = r.self.front
    /\ len' = r.self.len
    /\ UNCHANGED flex

\* the client drops the returned value and goes on
Return ==
    /\ pc = "returned"
    /\ pc' = "ready"
    /\ last' = NoCall
    /\ UNCHANGED <<cap, chrs, front, len, ghosts, flex>>

\* a constructor replaces the value the client holds, unless it fails
Construct(r, ok) == IF r.panic \/ ~ok THEN [r EXCEPT !.self = Self] ELSE r

CallMake(s) == Call("make", <<s>>, Construct(make(cap, s), TRUE))
CallTryMake(s) ==
    LET r == try_make(cap, s)
    IN  Call("try_make", <<s>>, Construct(r, ~r.panic /\ r.ret.ok))
CallMakeRemainder(s) ==
    Call("make_remainder", <<s>>, Construct(make_remainder(cap, s), TRUE))
CallFromPair(l, r) ==
    LET p == from_pair(cap, l, r)
    IN  Call("from_pair", <<l, r>>, Construct(p, ~p.panic /\ p.ret.some))
CallSubstr(start, end, overflow_checks) ==
    Call("substr", <<start, end>>, substr(Self, start, end, overflow_checks))
CallPushStr(s) == Call("push_str", <<s>>, push_str(Self, s))
CallPushFront(s) == Call("push_front", <<s>>, push_front(Self, s))
CallPushChar(c) == Call("push_char", <<c>>, push_char(Self, c))
CallPushCharFront(c) == Call("push_char_front", <<c>>, push_char_front(Self, c))
CallPopChar(overflow_checks) ==
    Call("pop_char", <<>>, pop_char(Self, overflow_checks))
CallPopCharFront == Call("pop_char_front", <<>>, pop_char_front(Self))
CallTruncate(n) == Call("truncate", <<n>>, truncate(Self, n))
CallTruncateLeft(n, overflow_checks) ==
    Call("truncate_left", <<n>>, truncate_left(Self, n, overflow_checks))
CallTrimLeft(overflow_checks) ==
    Call("trim_left", <<>>, trim_left(Self, overflow_checks))
CallTrimRight == Call("trim_right", <<>>, trim_right(Self))
CallTrimWhitespaces(overflow_checks) ==
    Call("trim_whitespaces", <<>>, trim_whitespaces(Self, overflow_checks))
CallReset == Call("reset", <<>>, reset(Self))
CallMakeContiguous == Call("make_contiguous", <<>>, make_contiguous(Self))
CallClear == Call("clear", <<>>, clear(Self))
CallSet(n, c) == Call("set", <<n, c>>, set(Self, n, c))
CallFind(P) == Call("find", <<P>>, find(Self, P))
CallRfind(P) == Call("rfind", <<P>>, rfind(Self, P))
CallFindSubstr(s) == Call("find_substr", <<s>>, find_substr(Self, s))
CallRfindSubstr(s) == Call("rfind_substr", <<s>>, rfind_substr(Self, s))

Make == (\E s \in Strs : CallMake(s)) /\ UNCHANGED ghosts
TryMake == (\E s \in Strs : CallTryMake(s)) /\ UNCHANGED ghosts
MakeRemainder == (\E s \in Strs : CallMakeRemainder(s)) /\ UNCHANGED ghosts
\* the pairs handed to from_pair: at most MaxStr bytes together
Pairs == {p \in Strs \X Strs : Len(p[1]) + Len(p[2]) <= MaxStr}
FromPair == (\E p \in Pairs : CallFromPair(p[1], p[2])) /\ UNCHANGED ghosts
Substr ==
    /\ \E start \in 0..(MaxCap + 1), end \in 0..(MaxCap + 1), overflow_checks \in BOOLEAN :
           CallSubstr(start, end, overflow_checks)
    /\ UNCHANGED ghosts
PushStr == (\E s \in Strs : CallPushStr(s)) /\ UNCHANGED ghosts
PushFront == (\E s \in Strs : CallPushFront(s)) /\ UNCHANGED ghosts
PushChar == (\E c \in Chars : CallPushChar(c)) /\ UNCHANGED ghosts
PushCharFront == (\E c \in Chars : CallPushCharFront(c)) /\ UNCHANGED ghosts
PopChar ==
    (\E overflow_checks \in BOOLEAN : CallPopChar(overflow_checks)) /\ UNCHANGED ghosts
PopCharFront == CallPopCharFront /\ UNCHANGED ghosts
Truncate == (\E n \in 0..(MaxCap + 1) : CallTruncate(n)) /\ UNCHANGED ghosts
TruncateLeft ==
    /\ \E n \in 0..(MaxCap + 1), overflow_checks \in BOOLEAN :
           CallTruncateLeft(n, overflow_checks)
    /\ UNCHANGED ghosts
TrimLeft ==
    (\E overflow_checks \in BOOLEAN : CallTrimLeft(overflow_checks)) /\ UNCHANGED ghosts
TrimRight == CallTrimRight /\ UNCHANGED ghosts
TrimWhitespaces ==
    /\ \E overflow_checks \in BOOLEAN : CallTrimWhitespaces(overflow_checks)
    /\ UNCHANGED ghosts
Reset == CallReset /\ UNCHANGED ghosts
MakeContiguous == CallMakeContiguous /\ UNCHANGED ghosts
Clear == CallClear /\ UNCHANGED ghosts
Set == (\E n \in 0..MaxCap, c \in Chars : CallSet(n, c)) /\ UNCHANGED ghosts
Find == (\E P \in Preds : CallFind(P)) /\ UNCHANGED ghosts
Rfind == (\E P \in Preds : CallRfind(P)) /\ UNCHANGED ghosts
FindSubstr == (\E s \in Pats : CallFindSubstr(s)) /\ UNCHANGED ghosts
RfindSubstr == (\E s \in Pats : CallRfindSubstr(s)) /\ UNCHANGED ghosts

Next ==
    \/ Make \/ TryMake
    \/ PushStr \/ PushFront \/ PushChar \/ PushCharFront
    \/ PopChar \/ PopCharFront
    \/ Truncate \/ TruncateLeft
    \/ TrimLeft \/ TrimRight \/ TrimWhitespaces
    \/ Reset \/ MakeContiguous \/ Clear \/ Set
    \/ Find \/ Rfind \/ FindSubstr \/ RfindSubstr
    \/ Return

Spec == Init /\ [][Next]_vars

\* ------------------------------------ the other constructors, and substr
\* the client builds strings with every constructor, pushes at both ends,
\* pops in front and takes substrings
NextBuild ==
    \/ Make \/ MakeRemainder \/ FromPair
    \/ Substr
    \/ PushStr \/ PushFront \/ PopCharFront
    \/ Return

SpecBuild == Init /\ [][NextBuild]_vars

\* ------------------------------------- push_back/pop_front against a String
P1PushStr ==
    /\ \E s \in Strs :
          /\ len + Len(s) <= cap
          /\ CallPushStr(s)
          /\ shadow' = shadow \o s
    /\ UNCHANGED <<wraps, trip, steps>>

P1PopCharFront ==
    /\ CallPopCharFront
    /\ shadow' = IF shadow = <<>> THEN <<>> ELSE Tail(shadow)
    /\ wraps' = IF len > 0 /\ front = cap - 1 THEN Min(wraps + 1, MaxWraps) ELSE wraps
    /\ UNCHANGED <<trip, steps>>

NextP1 == P1PushStr \/ P1PopCharFront \/ Return

SpecP1 == Init /\ [][NextP1]_vars

\* ------------------------------------------- push_front, then pops in front
\* the bytes at the logical positions 0..len-1 (invariant I1)
Logical(c) == [i \in 1..c.len |-> c.chrs[(c.front + i - 1) % c.N]]

P7PushFront ==
    /\ \E s \in Strs :
          /\ CallPushFront(s)
          /\ trip' = IF len + Len(s) <= cap
                     THEN [active |-> TRUE, s |-> s, popped |-> <<>>,
                           front |-> front, content |-> Logical(Self)]
                     ELSE NoTrip
    /\ UNCHANGED <<shadow, wraps, steps>>

P7PopCharFront ==
    /\ CallPopCharFront
    /\ trip' = IF trip.active /\ Len(trip.popped) < Len(trip.s)
               THEN [trip EXCEPT !.popped = Append(@, pop_char_front(Self).ret.val)]
               ELSE NoTrip
    /\ UNCHANGED <<shadow, wraps, steps>>

P7Make == (\E s \in Strs : CallMake(s)) /\ trip' = NoTrip /\ UNCHANGED <<shadow, wraps, steps>>

P7PushStr == (\E s \in Strs : CallPushStr(s)) /\ trip' = NoTrip /\ UNCHANGED <<shadow, wraps, steps>>

NextP7 == P7PushFront \/ P7PopCharFront \/ P7Make \/ P7PushStr \/ Return

SpecP7 == Init /\ [][NextP7]_vars

\* ------------------------------------------------- the client of a Flexstr
InitFlex ==
    /\ cap = 1
    /\ chrs = cstr_default(1).chrs
    /\ front = 0
    /\ len = 0
    /\ pc = "ready"
    /\ last = NoCall
    /\ shadow = <<>>
    /\ wraps = 0
    /\ steps = 0
    /\ trip = NoTrip
    /\ flexN \in 1..MaxFlexN
    /\ inner = Flexstr_default(flexN)

\* the client calls op with arg on its Flexstr; r is what the call gives back
FlexStep(op, arg, r) ==
    /\ pc = "ready"
    /\ pc' = "returned"
    /\ last' = [op |-> op, arg |-> arg, pre |-> inner, ret |-> r.ret, panic |-> r.panic]
    /\ inner' = r.self
    /\ UNCHANGED <<flexN, cap, chrs, front, len>>

FlexCall(op, arg, r) == FlexStep(op, arg, r) /\ UNCHANGED ghosts

InitFlexBig ==
    /\ cap = 1
    /\ chrs = cstr_default(1).chrs
    /\ front = 0
    /\ len = 0
    /\ pc = "ready"
    /\ last = NoCall
    /\ shadow = <<>>
    /\ wraps = 0
    /\ steps = 0
    /\ trip = NoTrip
    /\ flexN = BigFlexN
    /\ inner = Flexstr_default(flexN)

\* FillLen bytes 'a'
Fill == [i \in 1..FillLen |-> 97]

\* the strings the client hands over: where N > 256, the long one and the
\* ones of at most MaxBigGrow bytes
FlexInputs ==
    IF flexN > 256 THEN {Fill} \cup {s \in FlexStrs : Len(s) <= MaxBigGrow}
    ELSE FlexStrs

\* the byte offsets the client truncates at
TruncateAt ==
    IF flexN > 256
    THEN (0..(MaxBigGrow + 1)) \cup ((FillLen - 1)..(FillLen + MaxBigGrow + 1))
    ELSE 0..(MaxFlexLen + 1)

\* an append is taken while the string stays within MaxFlexLen bytes; where
\* N > 256, while it stays within MaxBigGrow bytes, or within MaxBigGrow
\* bytes after the long string
Grows(s) ==
    LET l == Len(Flexstr_to_str(inner))
    IN  IF flexN > 256
        THEN \/ l = 0 /\ s = Fill
             \/ l + Len(s) <= MaxBigGrow
             \/ l >= FillLen /\ l + Len(s) <= FillLen + MaxBigGrow
        ELSE l + Len(s) <= MaxFlexLen

FlexMake == \E s \in FlexInputs : FlexCall("make", <<s>>, Flexstr_make(flexN, s))
FlexFromString ==
    \E s \in FlexInputs : FlexCall("from_string", <<s>>, Flexstr_from_string(flexN, s))
FlexFrom == \E s \in FlexInputs : FlexCall("from", <<s>>, Flexstr_from(flexN, s))
FlexNew == FlexCall("new", <<>>, Flexstr_new(flexN))
FlexPushStr ==
    \E s \in FlexInputs, overflow_checks \in BOOLEAN :
        /\ Grows(s)
        /\ FlexCall("push_str", <<s>>, Flexstr_push_str(flexN, inner, s, overflow_checks))
FlexPush ==
    \E c \in FlexChars, overflow_checks \in BOOLEAN :
        /\ Grows(c)
        /\ FlexCall("push", <<c>>, Flexstr_push(flexN, inner, c, overflow_checks))
FlexPop == FlexCall("pop", <<>>, Flexstr_pop(flexN, inner))
FlexTruncate ==
    \E n \in TruncateAt :
        FlexCall("truncate", <<n>>, Flexstr_truncate(flexN, inner, n))
FlexClear == FlexCall("clear", <<>>, Flexstr_clear(flexN, inner))
FlexSet ==
    \E i \in 0..MaxFlexChars, c \in FlexChars :
        FlexCall("set", <<i, c>>, Flexstr_set(inner, i, c))
FlexSplitOff == FlexCall("split_off", <<>>, Flexstr_split_off(flexN, inner))
FlexTakeString == FlexCall("take_string", <<>>, Flexstr_take_string(flexN, inner))
FlexIsFixed ==
    FlexCall("is_fixed", <<>>, Returned(inner, Flexstr_is_fixed(inner)))
FlexIsOwned ==
    FlexCall("is_owned", <<>>, Returned(inner, Flexstr_is_owned(inner)))

NextFlex ==
    \/ FlexMake \/ FlexFromString \/ FlexFrom \/ FlexNew
    \/ FlexPushStr \/ FlexPush \/ FlexPop
    \/ FlexTruncate \/ FlexClear \/ FlexSet
    \/ FlexSplitOff \/ FlexTakeString
    \/ FlexIsFixed \/ FlexIsOwned
    \/ Return

SpecFlex == InitFlex /\ [][NextFlex]_vars

SpecFlexBig == InitFlexBig /\ [][NextFlex]_vars

\* --------------------------------------------- the appends to a Flexstr
FlexWriteStr ==
    \E s \in FlexInputs, overflow_checks \in BOOLEAN :
        /\ Grows(s)
        /\ FlexCall("write_str", <<s>>,
                    Flexstr_write_str(flexN, inner, s, overflow_checks))

\* ------------------------------------------ replacing chars of a Flexstr
\* two chars of one byte, two of two bytes, one of three: 'a' 'b' 'é' 'è' '€'
SetChars == FlexChars \cup {<<98>>, <<195, 168>>}

FlexSetChar ==
    \E i \in 0..MaxFlexChars, c \in SetChars :
        FlexCall("set", <<i, c>>, Flexstr_set(inner, i, c))

NextSet == FlexMake \/ FlexPop \/ FlexSetChar \/ Return

SpecSet == InitFlex /\ [][NextSet]_vars

\* ------------------------------------------------ comparing two Flexstr
\* the other operand: a value as make leaves it, or as make and pop leave it
FlexOthers ==
    {Flexstr_make(flexN, s).self : s \in FlexInputs}
        \cup {Flexstr_pop(flexN, Flexstr_make(flexN, s).self).self : s \in FlexInputs}

FlexEq ==
    \E other \in FlexOthers :
        FlexCall("eq", <<other>>, Returned(inner, Flexstr_eq(inner, other)))

FlexCmp ==
    \E other \in FlexOthers :
        FlexCall("cmp", <<other>>, Returned(inner, Flexstr_cmp(inner, other)))

NextFlexCmp == FlexMake \/ FlexPushStr \/ FlexPop \/ FlexEq \/ FlexCmp \/ Return

SpecFlexCmp == InitFlex /\ [][NextFlexCmp]_vars

NextAppend ==
    \/ FlexMake \/ FlexPushStr \/ FlexPush \/ FlexWriteStr
    \/ FlexPop
    \/ Return

SpecAppend == InitFlex /\ [][NextAppend]_vars

\* ------------------------------------------- a Flexstr against a String
\* every call is also made on the String shadow
ShadowStep(op, arg, r, s) ==
    /\ FlexStep(op, arg, r)
    /\ shadow' = s
    /\ UNCHANGED <<wraps, trip, steps>>

\* the String after set(i, c), done as Flexstr::set does it on an owned string
String_set(s, i, c) ==
    LET at == char_indices_nth(s, i)
    IN  IF at.some /\ len_utf8(c) = at.val.clen THEN ReplaceBytes(s, at.val.bi, c)
        ELSE s

ShadowMake ==
    \E s \in FlexStrs : ShadowStep("make", <<s>>, Flexstr_make(flexN, s), s)
ShadowPushStr ==
    \E s \in FlexStrs, overflow_checks \in BOOLEAN :
        /\ Grows(s)
        /\ ShadowStep("push_str", <<s>>,
                      Flexstr_push_str(flexN, inner, s, overflow_checks), shadow \o s)
ShadowPush ==
    \E c \in FlexChars, overflow_checks \in BOOLEAN :
        /\ Grows(c)
        /\ ShadowStep("push", <<c>>,
                      Flexstr_push(flexN, inner, c, overflow_checks), shadow \o c)
ShadowPop == ShadowStep("pop", <<>>, Flexstr_pop(flexN, inner), String_pop(shadow).s)
\* String::truncate(n), at the char boundaries of the String
ShadowTruncate ==
    \E n \in TruncateAt :
        /\ is_char_boundary(shadow, n)
        /\ ShadowStep("truncate", <<n>>, Flexstr_truncate(flexN, inner, n),
                      Slice(shadow, 0, n))
ShadowSet ==
    \E i \in 0..MaxFlexChars, c \in FlexChars :
        ShadowStep("set", <<i, c>>, Flexstr_set(inner, i, c), String_set(shadow, i, c))
ShadowClear == ShadowStep("clear", <<>>, Flexstr_clear(flexN, inner), <<>>)

NextShadow ==
    \/ ShadowMake \/ ShadowPushStr \/ ShadowPush \/ ShadowPop
    \/ ShadowTruncate \/ ShadowSet \/ ShadowClear
    \/ Return

SpecShadow == InitFlex /\ [][NextShadow]_vars

\* ------------------------------------------ comparisons between two cstr
\* a cstr<M> with content s (what of it fits) whose front was moved back by j:
\* push_front of j bytes on the empty string, truncate(0), push_str(s)
Rotated(M, j, s) ==
    LET junk == [i \in 1..j |-> 97]
        moved == truncate(push_front(cstr_default(M), junk).self, 0).self
    IN  push_str(moved, s).self

\* the values the client compares its own with
Others == {Rotated(M, j, s) : M \in 1..MaxCap, j \in 0..MaxRot, s \in Strs}

CallEq(other, overflow_checks) ==
    Call("eq", <<other>>, eq(Self, other, overflow_checks))
CallEqStr(s) == Call("eq_str", <<s>>, eq_str(Self, s))
CallCmp(other) == Call("cmp", <<other>>, cmp(Self, other))
CallPartialCmpStr(s) == Call("partial_cmp_str", <<s>>, partial_cmp_str(Self, s))
CallHash == Call("hash", <<>>, hash(Self))

Eq ==
    /\ \E other \in Others, overflow_checks \in BOOLEAN :
           CallEq(other, overflow_checks)
    /\ UNCHANGED ghosts
EqStr == (\E s \in Strs : CallEqStr(s)) /\ UNCHANGED ghosts
\* cmp takes a cstr of the same N
Cmp == (\E other \in {o \in Others : o.N = cap} : CallCmp(other)) /\ UNCHANGED ghosts
PartialCmpStr == (\E s \in Strs : CallPartialCmpStr(s)) /\ UNCHANGED ghosts
Hash == CallHash /\ UNCHANGED ghosts

NextCmp ==
    \/ Make \/ PushStr \/ PopCharFront
    \/ Eq \/ EqStr \/ Cmp \/ PartialCmpStr \/ Hash
    \/ Return

SpecCmp == Init /\ [][NextCmp]_vars

\* ----------------------------------------------- copies of a cstr<N>
Resize ==
    /\ \E N \in 1..(MaxCap + 1) : Call("resize", <<N>>, resize(Self, N))
    /\ UNCHANGED ghosts
Reallocate ==
    /\ \E N \in 1..(MaxCap + 1) : Call("reallocate", <<N>>, reallocate(Self, N))
    /\ UNCHANGED ghosts

NextCopy ==
    \/ Make \/ PushStr \/ PopCharFront
    \/ Substr \/ Resize \/ Reallocate
    \/ Return

SpecCopy == Init /\ [][NextCopy]_vars

\* -------------------------------------------- the all-or-nothing appends
WriteStr == (\E s \in Strs : Call("write_str", <<s>>, write_str(Self, s))) /\ UNCHANGED ghosts

NextWrite ==
    \/ WriteStr \/ PushChar \/ PushCharFront
    \/ PopChar \/ PopCharFront
    \/ Return

SpecWrite == Init /\ [][NextWrite]_vars

\* ------------------------------------------------- the largest capacity
\* the strings, chars and values handed to the calls on the large cstr
WideStrs == {s \in Strs : Len(s) = 2}
WideChars == {c \in Chars : len_utf8(c) = 1}
WideOthers == {o \in Others : o.N = MaxCap /\ o.front = 0 /\ o.len = 3}
WideSame == {Rotated(WideN, 0, s) : s \in {x \in Strs : Len(x) = 3}}

\* a cstr<65535> made from a short string, on which the client makes at most
\* MaxWideSteps calls
InitWide ==
    /\ cap = WideN
    /\ \E s \in WideStrs :
           /\ chrs = make(WideN, s).self.chrs
           /\ len = make(WideN, s).self.len
    /\ front = 0
    /\ pc = "ready"
    /\ last = NoCall
    /\ shadow = <<>>
    /\ wraps = 0
    /\ steps = 0
    /\ trip = NoTrip
    /\ flexN = 1
    /\ inner = Flexstr_default(1)

WideStep(call) ==
    /\ steps < MaxWideSteps
    /\ call
    /\ steps' = steps + 1
    /\ UNCHANGED <<shadow, wraps, trip>>

WidePushCharFront == WideStep(\E c \in WideChars : CallPushCharFront(c))
WidePushStr == WideStep(\E s \in WideStrs : CallPushStr(s))
WidePopChar == WideStep(\E overflow_checks \in BOOLEAN : CallPopChar(overflow_checks))
WidePopCharFront == WideStep(CallPopCharFront)
WideTruncateLeft ==
    WideStep(\E n \in 1..MaxStr, overflow_checks \in BOOLEAN :
                 CallTruncateLeft(n, overflow_checks))
WideTrimLeft == WideStep(\E overflow_checks \in BOOLEAN : CallTrimLeft(overflow_checks))
WideTrimWhitespaces ==
    WideStep(\E overflow_checks \in BOOLEAN : CallTrimWhitespaces(overflow_checks))
WideEq ==
    WideStep(\E other \in WideOthers, overflow_checks \in BOOLEAN :
                 CallEq(other, overflow_checks))
WideCmp == WideStep(\E other \in WideSame : CallCmp(other))
WideHash == WideStep(CallHash)

NextWide ==
    \/ WidePushCharFront \/ WidePushStr
    \/ WidePopChar \/ WidePopCharFront \/ WideTruncateLeft
    \/ WideTrimLeft \/ WideTrimWhitespaces \/ WideEq \/ WideCmp \/ WideHash
    \/ Return

SpecWide == InitWide /\ [][NextWide]_vars

\* ------------------------------------------------------------ cstr claims
Called(op) == pc = "returned" /\ last.op = op

\* C2: in every reachable state of a cstr<N>, 0 <= front < N and
\* 0 <= len <= N.
C2_Bounds == front \in 0..(cap - 1) /\ len \in 0..cap

\* a full string that starts at the last byte of the buffer, after push_front
C2_Witness == Called("push_front") /\ len = cap /\ front = cap - 1 /\ cap > 1

\* C3: after any sequence of push_str calls that fit and of pop_char_front
\* calls, the two segments of to_strs concatenated are the string a plain
\* growable string holds after the same sequence, however often front has
\* wrapped around.
C3_RotationEquivalence == to_string(Self) = shadow

\* front has wrapped around twice and the string, not empty, wraps as well
C3_Witness == wraps >= 2 /\ len > 1 /\ ~is_contiguous(Self)

\* C4: push_str(s) appends the first k = min(|s|, N - len) bytes of s after
\* the content, leaves front alone, sets len to len + k and returns s[k..].
C4_PushStr ==
    Called("push_str") =>
        LET pre == last.pre
            s == last.arg[1]
            k == Min(Len(s), pre.N - pre.len)
        IN  /\ ~last.panic
            /\ Logical(Self) = Logical(pre) \o SubSeq(s, 1, k)
            /\ front = pre.front
            /\ len = pre.len + k
            /\ last.ret = SubSeq(s, k + 1, Len(s))

\* a push onto a string that does not start at 0, of which a part fits and
\* is written across the end of the buffer
C4_Witness ==
    /\ Called("push_str")
    /\ last.pre.front > 0 /\ last.pre.len > 0
    /\ len - last.pre.len > 1 /\ len - last.pre.len < Len(last.arg[1])
    /\ ~is_contiguous(Self) /\ is_contiguous(last.pre)

\* C5: push_front(s) puts the last k = min(|s|, N - len) bytes of s, in their
\* order, before the content, moves front back by k modulo N and returns the
\* prefix of s it did not push.
C5_PushFront ==
    Called("push_front") =>
        LET pre == last.pre
            s == last.arg[1]
            k == Min(Len(s), pre.N - pre.len)
        IN  /\ ~last.panic
            /\ Logical(Self) = SubSeq(s, Len(s) - k + 1, Len(s)) \o Logical(pre)
            /\ front = (pre.front + pre.N - k) % pre.N
            /\ len = pre.len + k
            /\ last.ret = SubSeq(s, 1, Len(s) - k)

\* a push before a string at the start of the buffer, of which only the end
\* fits: front moves back around the end of the buffer
C5_Witness ==
    /\ Called("push_front")
    /\ last.pre.front = 0 /\ last.pre.len > 0
    /\ len - last.pre.len > 1 /\ len - last.pre.len < Len(last.arg[1])
    /\ last.arg[1][1] # last.arg[1][Len(last.arg[1])]

\* C6: after push_front(s) with s fitting and |s| calls of pop_char_front,
\* the pops have returned the bytes of s in order, and content and front are
\* what they were before the push.
C6_RoundTrip ==
    (trip.active /\ Len(trip.popped) = Len(trip.s)) =>
        /\ trip.popped = trip.s
        /\ Logical(Self) = trip.content
        /\ front = trip.front

\* the round trip of a string of two different bytes, pushed before a string
\* at the start of the buffer
C6_Witness ==
    /\ Called("pop_char_front")
    /\ trip.active /\ Len(trip.popped) = Len(trip.s)
    /\ Len(trip.s) >= 2 /\ trip.s[1] # trip.s[2]
    /\ trip.front = 0 /\ trip.content # <<>>

\* C7: find_substr(s) returns the smallest logical offset at which s occurs
\* in the content, also when the occurrence lies across the wrap boundary,
\* and None iff s does not occur.
C7_FindSubstr ==
    Called("find_substr") =>
        LET occ == Occurrences(Logical(Self), last.arg[1])
        IN  /\ ~last.panic
            /\ last.ret = IF occ = {} THEN None ELSE Some(SetMin(occ))

\* the first occurrence starts in the tail segment and ends in the head
\* segment, and a later occurrence lies in the head segment
C7_Witness ==
    /\ Called("find_substr")
    /\ ~is_contiguous(Self)
    /\ last.ret.some
    /\ last.ret.val < cap - front
    /\ last.ret.val + Len(last.arg[1]) > cap - front
    /\ Cardinality(Occurrences(Logical(Self), last.arg[1])) > 1

\* C8: rfind_substr(s) returns the largest logical offset at which s occurs
\* in the content, and None iff s does not occur.
C8_RfindSubstr ==
    Called("rfind_substr") =>
        LET occ == Occurrences(Logical(Self), last.arg[1])
        IN  /\ ~last.panic
            /\ last.ret = IF occ = {} THEN None ELSE Some(SetMax(occ))

\* C9: rfind(predicate) returns the position of the last char of the content
\* that satisfies the predicate, and None iff no char does.
C9_Rfind ==
    Called("rfind") =>
        LET sat == Satisfying(Logical(Self), last.arg[1])
        IN  /\ ~last.panic
            /\ last.ret = IF sat = {} THEN None ELSE Some(SetMax(sat))

\* C10: try_make(s) returns Ok of a string with front = 0 and content s when
\* |s| <= N, and Err(s) when |s| > N.
C10_TryMake ==
    Called("try_make") =>
        LET s == last.arg[1]
        IN  /\ ~last.panic
            /\ IF Len(s) <= cap
               THEN last.ret.ok /\ front = 0 /\ Logical(Self) = s
               ELSE ~last.ret.ok /\ last.ret.err = s

\* C11: make_remainder(s) returns, for every s, a string with front = 0 whose
\* content is the first min(N, |s|) bytes of s, and the unconsumed suffix r of
\* s, so that content ++ r = s.
C11_MakeRemainder ==
    Called("make_remainder") =>
        LET s == last.arg[1]
        IN  /\ ~last.panic
            /\ front = 0
            /\ Logical(Self) = SubSeq(s, 1, Min(cap, Len(s)))
            /\ Logical(Self) \o last.ret = s

\* C12: from_pair(left, right) returns Some of a string with front = 0 and
\* content left ++ right when |left| + |right| <= N, and None otherwise.
C12_FromPair ==
    Called("from_pair") =>
        LET left == last.arg[1]
            right == last.arg[2]
        IN  /\ ~last.panic
            /\ IF Len(left) + Len(right) <= cap
               THEN last.ret.some /\ front = 0 /\ Logical(Self) = left \o right
               ELSE ~last.ret.some

\* C13: substr(start, end) with end <= start, start >= len or end > len never
\* panics and returns an empty string, on the empty string too.
C13_SubstrInvalidRange ==
    Called("substr") =>
        LET start == last.arg[1]
            end == last.arg[2]
        IN  (end <= start \/ start >= last.pre.len \/ end > last.pre.len) =>
                ~last.panic /\ last.ret.len = 0

\* --------------------------------------------------------- Flexstr claims
\* C1: after every operation on a Flexstr<N> with N <= 256, also on content
\* with multi-byte chars, is_fixed() == (len() < N).
C1_AxiomA1 ==
    flexN <= 256 => (Flexstr_is_fixed(inner) <=> Flexstr_len(inner) < flexN)

\* C14: a Flexstr<N> with N > 256 is Owned after every constructor (make,
\* from_string, From<String>, default/new) and after every operation.
C14_AlwaysOwned == flexN > 256 => Flexstr_is_owned(inner)

\* what the last call to a Flexstr started from, and the content it had
FlexPre == last.pre
PreStr == Flexstr_to_str(FlexPre)

\* C15: pop removes and returns the last char (None on empty, nothing
\* changed); an Owned value stays Owned if the resulting length is still >= N
\* and becomes Fixed with the retained bytes if it is < N; a Fixed value pops
\* in place. This holds for chars of every encoded length.
C15_Pop ==
    Called("pop") =>
        /\ ~last.panic
        /\ IF Len(PreStr) = 0
           THEN last.ret = None /\ inner = FlexPre
           ELSE LET ci == SetMax(char_starts(PreStr))
                    kept == SubSeq(PreStr, 1, ci)
                IN  /\ last.ret = Some(SubSeq(PreStr, ci + 1, Len(PreStr)))
                    /\ Flexstr_to_str(inner) = kept
                    /\ Flexstr_is_fixed(inner) <=>
                           (Flexstr_is_fixed(FlexPre) \/ Len(kept) < flexN)

\* C16: push_str(s) never loses bytes, the content afterwards is the old
\* content ++ s; a Fixed value with len + |s| < N stays Fixed and the call
\* returns true, otherwise the value is Owned afterwards and the call returns
\* false; the returned flag equals is_fixed() after the call.
C16_PushStr ==
    Called("push_str") =>
        LET s == last.arg[1]
            stays == Flexstr_is_fixed(FlexPre) /\ Len(PreStr) + Len(s) < flexN
        IN  /\ ~last.panic
            /\ Flexstr_to_str(inner) = PreStr \o s
            /\ Flexstr_is_fixed(inner) <=> stays
            /\ last.ret = stays
            /\ last.ret = Flexstr_is_fixed(inner)

\* C17: truncate(n) with n on a char boundary keeps exactly the first
\* min(n, len) bytes; an Owned value becomes Fixed if n < N and stays Owned if
\* n >= N, a Fixed value stays Fixed; n >= len changes nothing; the returned
\* flag equals is_fixed() after the call.
C17_Truncate ==
    Called("truncate") =>
        LET n == last.arg[1]
        IN  (n >= Len(PreStr) \/ is_char_boundary(PreStr, n)) =>
                /\ ~last.panic
                /\ Flexstr_to_str(inner) = SubSeq(PreStr, 1, Min(n, Len(PreStr)))
                /\ Flexstr_is_fixed(inner) <=>
                       (Flexstr_is_fixed(FlexPre) \/ n < flexN)
                /\ last.ret = Flexstr_is_fixed(inner)

\* C18: split_off on an Owned value with content c leaves a Fixed value that
\* holds exactly the first N-1 bytes of c and returns c[N-1..], so that
\* retained ++ returned = c; on a Fixed value it returns the empty string and
\* changes nothing.
C18_SplitOff ==
    Called("split_off") =>
        /\ ~last.panic
        /\ IF Flexstr_is_owned(FlexPre)
           THEN /\ Flexstr_is_fixed(inner)
                /\ Flexstr_to_str(inner) = SubSeq(PreStr, 1, flexN - 1)
                /\ last.ret = SubSeq(PreStr, flexN, Len(PreStr))
                /\ Flexstr_to_str(inner) \o last.ret = PreStr
           ELSE last.ret = <<>> /\ inner = FlexPre

\* C19: for 1 <= N <= 256, on every state and every argument, make,
\* push_str, push, pop, set, split_off, clear, is_fixed and is_owned complete
\* without panicking.
C19_NoPanic ==
    /\ pc = "returned"
    /\ flexN \in 1..256
    /\ last.op \in {"make", "push_str", "push", "pop", "set", "split_off",
                    "clear", "is_fixed", "is_owned"}
    => ~last.panic

\* a byte string that is whole chars: it starts on a char, and every char
\* has its continuation bytes
WholeChars(s) ==
    /\ Len(s) > 0 => ~is_continuation(s[1])
    /\ \A bi \in char_starts(s) :
           /\ bi + char_len_at(s, bi) <= Len(s)
           /\ \A k \in (bi + 1)..(bi + char_len_at(s, bi) - 1) : is_continuation(s[k + 1])

C21_Migrated ==
    /\ pc = "returned"
    /\ last.op \in {"push_str", "push"}
    /\ Flexstr_is_fixed(FlexPre)
    /\ Flexstr_is_owned(inner)
    /\ Len(PreStr) >= 2

\* ------------------------------------------- cstr claims, second part
Pre == last.pre
PreContent == Logical(last.pre)

\* C22: truncate_left(n) with 1 <= n <= len leaves exactly c[n..] of the
\* content c, front = (front + n) mod N and len = len - n; with n = 0 or
\* n > len it leaves the state unchanged.
C22_TruncateLeft ==
    Called("truncate_left") =>
        LET n == last.arg[1]
        IN  /\ ~last.panic
            /\ IF 1 <= n /\ n <= Pre.len
               THEN /\ Logical(Self) = Slice(PreContent, n, Pre.len)
                    /\ front = (Pre.front + n) % cap
                    /\ len = Pre.len - n
               ELSE Self = Pre

\* C23: after reset() and after make_contiguous() the string is contiguous,
\* to_strs gives an empty second segment and a first segment that is empty
\* only for the empty string, and the concatenation of the segments and len
\* are as before the call.
C23_Contiguity ==
    (Called("reset") \/ Called("make_contiguous")) =>
        /\ ~last.panic
        /\ is_contiguous(Self)
        /\ to_strs(Self)[2] = <<>>
        /\ (len > 0 => to_strs(Self)[1] # <<>>)
        /\ to_strs(Self)[1] \o to_strs(Self)[2]
               = to_strs(Pre)[1] \o to_strs(Pre)[2]
        /\ len = Pre.len

\* reset has just rewritten a string of several bytes that wrapped around
C23_Witness ==
    Called("reset") /\ ~is_contiguous(Pre) /\ Pre.len > 1 /\ ~last.panic

\* make_contiguous has just rewritten a string that wrapped around
C23_MakeContiguous ==
    Called("make_contiguous") /\ ~is_contiguous(Pre) /\ Pre.len > 1 /\ front = 0

\* C24: in every state to_strs gives (a, b) with a ++ b the logical content
\* and |a| + |b| = len, and b is empty exactly when front + len <= N.
C24_ToStrs ==
    LET a == to_strs(Self)[1]
        b == to_strs(Self)[2]
    IN  /\ a \o b = Logical(Self)
        /\ Len(a) + Len(b) = len
        /\ (b = <<>>) <=> (front + len <= cap)

\* the buffer is full with front = 0
C24_Witness == len = cap /\ front = 0 /\ cap > 1 /\ to_strs(Self)[2] = <<>>

\* the content wraps around, with several bytes in each segment
C24_Wrapped == Len(to_strs(Self)[1]) > 1 /\ Len(to_strs(Self)[2]) > 1

\* C25: pop_char on a non-empty string returns the last logical byte, takes
\* one off len and leaves front and the rest of the content as they were; on
\* the empty string it returns None and leaves front and len as they were.
C25_PopChar ==
    Called("pop_char") =>
        /\ ~last.panic
        /\ front = Pre.front
        /\ IF Pre.len = 0
           THEN last.ret = None /\ len = 0
           ELSE /\ last.ret = Some(PreContent[Pre.len])
                /\ len = Pre.len - 1
                /\ Logical(Self) = SubSeq(PreContent, 1, Pre.len - 1)

\* C26: pop_char_front on a non-empty string returns the first logical byte,
\* sets front to (front + 1) mod N, takes one off len and leaves the rest of
\* the content as it was; on the empty string it returns None and leaves
\* front and len as they were.
C26_PopCharFront ==
    Called("pop_char_front") =>
        /\ ~last.panic
        /\ IF Pre.len = 0
           THEN last.ret = None /\ len = 0 /\ front = Pre.front
           ELSE /\ last.ret = Some(PreContent[1])
                /\ front = (Pre.front + 1) % cap
                /\ len = Pre.len - 1
                /\ Logical(Self) = SubSeq(PreContent, 2, Pre.len)

\* pop_char_front has just moved front from N - 1 round to 0, bytes remaining
C26_Witness ==
    /\ Called("pop_char_front")
    /\ Pre.front = cap - 1
    /\ cap > 1
    /\ front = 0
    /\ len > 0

\* C27: a == b between cstr of any two capacities holds exactly when the
\* logical contents are equal, whatever the fronts and the unused bytes are,
\* and a == s for a &str s holds exactly when the content equals s.
C27_Equality ==
    /\ Called("eq") =>
           ~last.panic /\ (last.ret <=> Logical(Self) = Logical(last.arg[1]))
    /\ Called("eq_str") =>
           ~last.panic /\ (last.ret <=> Logical(Self) = last.arg[1])

\* the lexicographic order of two byte strings, a proper prefix being Less
Lexicographic(s, o) ==
    LET differ == {i \in 1..Min(Len(s), Len(o)) : s[i] # o[i]}
    IN  IF differ # {}
        THEN (IF s[SetMin(differ)] < o[SetMin(differ)] THEN "Less" ELSE "Greater")
        ELSE IF Len(s) < Len(o) THEN "Less"
        ELSE IF Len(s) > Len(o) THEN "Greater"
        ELSE "Equal"

\* C28: cmp between two cstr<N> and partial_cmp against a &str give the
\* lexicographic order of the logical contents, whatever the fronts are, and
\* cmp gives Equal exactly when == holds.
C28_Ordering ==
    /\ Called("cmp") =>
           /\ ~last.panic
           /\ last.ret = Lexicographic(Logical(Self), Logical(last.arg[1]))
           /\ \A overflow_checks \in BOOLEAN :
                  LET e == eq(Self, last.arg[1], overflow_checks)
                  IN  ~e.panic /\ (e.ret <=> last.ret = "Equal")
    /\ Called("partial_cmp_str") =>
           /\ ~last.panic
           /\ last.ret = Some(Lexicographic(Logical(Self), last.arg[1]))

\* the cstr<N> values hash is compared on: of the capacity of the client's
SameN == IF cap = WideN THEN WideSame ELSE {o \in Others : o.N = cap}

\* C29: two cstr<N> of equal logical content feed the same chars to the
\* hasher, and a == b implies that the two feeds are the same.
C29_HashEq ==
    Called("hash") =>
        \A o \in SameN :
            /\ Logical(o) = Logical(Self) => hash(o).ret = last.ret
            /\ \A overflow_checks \in BOOLEAN :
                   LET e == eq(Self, o, overflow_checks)
                   IN  (~e.panic /\ e.ret) => hash(o).ret = last.ret

\* s without its leading whitespace, and without its trailing whitespace
TrimmedLeft(s) ==
    LET solid == {i \in 1..Len(s) : ~is_whitespace(s[i])}
    IN  IF solid = {} THEN <<>> ELSE SubSeq(s, SetMin(solid), Len(s))
TrimmedRight(s) ==
    LET solid == {i \in 1..Len(s) : ~is_whitespace(s[i])}
    IN  IF solid = {} THEN <<>> ELSE SubSeq(s, 1, SetMax(solid))

\* C30: trim_left, trim_right and trim_whitespaces leave the content without
\* its leading, its trailing, and its leading and trailing whitespace, and
\* otherwise as it was, in wrapped states, on the empty string and on strings
\* of whitespace too.
C30_Trim ==
    /\ Called("trim_left") =>
           ~last.panic /\ Logical(Self) = TrimmedLeft(PreContent)
    /\ Called("trim_right") =>
           ~last.panic /\ Logical(Self) = TrimmedRight(PreContent)
    /\ Called("trim_whitespaces") =>
           ~last.panic /\ Logical(Self) = TrimmedRight(TrimmedLeft(PreContent))

\* C31: substr(start, end) with start < end <= len returns a cstr<N> with
\* front = 0 and len = end - start that holds the logical bytes [start, end)
\* of the source, wrapped or not, and leaves the source as it was.
C31_Substr ==
    Called("substr") =>
        LET start == last.arg[1]
            end == last.arg[2]
        IN  (start < end /\ end <= Pre.len) =>
                /\ ~last.panic
                /\ last.ret.N = cap
                /\ last.ret.front = 0
                /\ last.ret.len = end - start
                /\ Logical(last.ret) = Slice(PreContent, start, end)
                /\ Self = Pre

\* substr has just copied bytes from both sides of the wrap boundary
C31_Witness ==
    /\ Called("substr")
    /\ ~last.panic
    /\ last.ret.len >= 2
    /\ last.arg[1] > 0
    /\ Pre.front + last.arg[1] < cap
    /\ Pre.front + last.arg[2] > cap

\* C32: make(s) gives front = 0, len = min(N, |s|) and the first min(N, |s|)
\* bytes of s as content, and does not fail, whatever the length of s is.
C32_Make ==
    Called("make") =>
        LET s == last.arg[1]
        IN  /\ ~last.panic
            /\ front = 0
            /\ len = Min(cap, Len(s))
            /\ Logical(Self) = SubSeq(s, 1, Min(cap, Len(s)))

\* make has just dropped the excess of a string longer than N
C32_Witness == Called("make") /\ Len(last.arg[1]) > cap /\ cap > 1 /\ len = cap

\* C33: resize::<N>() gives, for every source and every N, a cstr<N> with
\* front = 0, len = min(len, N) and the first min(len, N) bytes of the
\* source's content, and does not fail.
C33_Resize ==
    Called("resize") =>
        LET N == last.arg[1]
        IN  /\ ~last.panic
            /\ last.ret.N = N
            /\ last.ret.front = 0
            /\ last.ret.len = Min(Pre.len, N)
            /\ Logical(last.ret) = SubSeq(PreContent, 1, Min(Pre.len, N))

\* C34: push(c) on a Fixed value with len + len_utf8(c) < N appends c in
\* place and returns true; otherwise the value is Owned afterwards, holds
\* old ++ c and the call returns false.
C34_Push ==
    Called("push") =>
        LET c == last.arg[1]
        IN  /\ ~last.panic
            /\ Flexstr_to_str(inner) = PreStr \o c
            /\ IF Flexstr_is_fixed(FlexPre) /\ Len(PreStr) + len_utf8(c) < flexN
               THEN Flexstr_is_fixed(inner) /\ last.ret = TRUE
               ELSE Flexstr_is_owned(inner) /\ last.ret = FALSE

\* C35: an Owned Flexstr is still Owned after push_str, push and write_str.
C35_OwnedStaysOwned ==
    (Called("push_str") \/ Called("push") \/ Called("write_str")) =>
        (Flexstr_is_owned(FlexPre) => ~last.panic /\ Flexstr_is_owned(inner))

\* a char has just been pushed to an Owned value that is, with the char,
\* shorter than N
C35_Witness ==
    /\ Called("push")
    /\ Flexstr_is_owned(FlexPre)
    /\ Flexstr_is_owned(inner)
    /\ Flexstr_len(inner) < flexN

\* write_str has just appended to an Owned value
C35_WriteStr ==
    /\ Called("write_str")
    /\ Flexstr_is_owned(FlexPre)
    /\ Len(last.arg[1]) > 0
    /\ last.ret = "Ok"

\* the byte offsets at which the chars of s start, and the i-th of them
CharCount(s) == Cardinality(char_starts(s))
NthStart(s, i) ==
    CHOOSE b \in char_starts(s) :
        Cardinality({x \in char_starts(s) : x < b}) = i
\* the byte length of the char that starts at offset b
CharLen(s, b) ==
    SetMin({x \in char_starts(s) \cup {Len(s)} : x > b}) - b

\* C36: Flexstr::set(i, c) returns false and changes nothing when i is not a
\* char position or c's byte length differs from the replaced char's;
\* otherwise it returns true and replaces exactly that char's bytes, keeping
\* the length and the representation.
C36_Set ==
    Called("set") =>
        LET i == last.arg[1]
            c == last.arg[2]
            s == PreStr
        IN  /\ ~last.panic
            /\ IF i < CharCount(s) /\ CharLen(s, NthStart(s, i)) = Len(c)
               THEN LET b == NthStart(s, i)
                    IN  /\ last.ret = TRUE
                        /\ Flexstr_to_str(inner) =
                             SubSeq(s, 1, b) \o c \o SubSeq(s, b + Len(c) + 1, Len(s))
                        /\ Flexstr_is_owned(inner) = Flexstr_is_owned(FlexPre)
               ELSE last.ret = FALSE /\ inner = FlexPre

\* a multi-byte char that is not the first has just been replaced by another
\* char of the same byte length, in an Owned value
C36_Witness ==
    /\ Called("set")
    /\ last.ret = TRUE
    /\ last.arg[1] > 0
    /\ Len(last.arg[2]) > 1
    /\ Flexstr_is_owned(inner)
    /\ Flexstr_to_str(inner) # PreStr

\* set has just refused a char of another byte length, in a Fixed value
C36_Refused ==
    /\ Called("set")
    /\ last.ret = FALSE
    /\ Flexstr_is_fixed(inner)
    /\ last.arg[1] < CharCount(PreStr)

\* C37 as stated: after make_contiguous() and after reset() front is 0 and
\* the logical content is the one before the call.
C37_FrontZero ==
    (Called("make_contiguous") \/ Called("reset")) =>
        /\ ~last.panic
        /\ front = 0
        /\ Logical(Self) = PreContent

\* C37, amended: after reset() front is 0; after make_contiguous() the
\* string does not wrap (front + len <= N), and front is 0 if it wrapped
\* before the call; in both cases the logical content is the one before the
\* call.
C37_Amended ==
    /\ Called("reset") => front = 0
    /\ Called("make_contiguous") =>
           /\ front + len <= cap
           /\ (Pre.front + Pre.len > cap => front = 0)
    /\ (Called("make_contiguous") \/ Called("reset")) =>
           ~last.panic /\ Logical(Self) = PreContent

\* make_contiguous has just moved a wrapped string of several bytes to the
\* start of the buffer
C37_Witness ==
    /\ Called("make_contiguous")
    /\ Pre.front + Pre.len > cap
    /\ Pre.len > 1
    /\ front = 0
    /\ Logical(Self) = PreContent

\* make_contiguous has just been called on a string that did not wrap and
\* did not start at 0
C37_LeftInPlace ==
    /\ Called("make_contiguous")
    /\ Pre.front > 0
    /\ Pre.len > 0
    /\ Pre.front + Pre.len <= cap

\* C38: a == b between two Flexstr<N> holds exactly when their contents are
\* the same bytes, and exactly when a.cmp(&b) is Equal, whatever the
\* representation of each.
C38_FlexEquality ==
    /\ Called("eq") =>
           (last.ret <=> Flexstr_to_str(inner) = Flexstr_to_str(last.arg[1]))
    /\ Called("eq") =>
           (last.ret <=> Flexstr_cmp(inner, last.arg[1]) = "Equal")
    /\ Called("cmp") =>
           ((last.ret = "Equal") <=> Flexstr_to_str(inner) = Flexstr_to_str(last.arg[1]))

\* the number of white-space bytes at the start of s
LeadingWhite(s) ==
    IF \E i \in 1..Len(s) : ~is_whitespace(s[i])
    THEN SetMin({i \in 1..Len(s) : ~is_whitespace(s[i])}) - 1
    ELSE Len(s)

\* the offsets == reads: up to the first byte at which a and b differ
Compared(a, b) ==
    {i \in 0..(Len(a) - 1) : \A j \in 1..i : a[j] = b[j]}

\* C39: the sums that the calls form in u16 stay within 65535: front + len - 1
\* in pop_char, front + i in pop_char_front (i = 1), truncate_left (i = n),
\* trim_left (i = the white space trimmed) and == (each i read, in both
\* operands), front + len in chars (for cmp and hash, on a contiguous
\* string).
C39_NoOverflow ==
    /\ Called("pop_char") /\ Pre.len > 0 => Pre.front + Pre.len - 1 < U16
    /\ Called("pop_char_front") /\ Pre.len > 0 => Pre.front + 1 < U16
    /\ Called("truncate_left") /\ last.arg[1] > 0 /\ last.arg[1] <= Pre.len =>
           Pre.front + last.arg[1] < U16
    /\ Called("trim_left") => Pre.front + LeadingWhite(PreContent) < U16
    /\ Called("eq") /\ Pre.len = last.arg[1].len =>
           \A i \in Compared(PreContent, Logical(last.arg[1])) :
               Pre.front + i < U16 /\ last.arg[1].front + i < U16
    /\ (Called("cmp") \/ Called("hash")) /\ is_contiguous(Pre) =>
           Pre.front + Pre.len < U16

\* C40: write_str(s) returns Err and leaves front, len and the content as
\* they were when len + |s| > N, and otherwise appends the whole of s and
\* returns Ok; push_char and push_char_front return false and leave them as
\* they were when the string is full or the char has several bytes.
C40_AllOrNothing ==
    /\ Called("write_str") =>
           LET s == last.arg[1]
           IN  /\ ~last.panic
               /\ front = Pre.front
               /\ IF Pre.len + Len(s) > cap
                  THEN /\ last.ret = "Err"
                       /\ len = Pre.len
                       /\ Logical(Self) = PreContent
                  ELSE /\ last.ret = "Ok"
                       /\ Logical(Self) = PreContent \o s
    /\ (Called("push_char") \/ Called("push_char_front")) =>
           (Pre.len = cap \/ Len(last.arg[1]) > 1 =>
               /\ ~last.panic
               /\ last.ret = FALSE
               /\ front = Pre.front
               /\ len = Pre.len
               /\ Logical(Self) = PreContent)

\* write_str has just refused a string of which a part would have fitted,
\* on a string that wraps around
C40_Witness ==
    /\ Called("write_str")
    /\ last.ret = "Err"
    /\ Pre.len > 0
    /\ Pre.len < cap
    /\ Pre.front + Pre.len > cap

\* write_str has just filled a string that was not empty
C40_Filled ==
    /\ Called("write_str")
    /\ last.ret = "Ok"
    /\ Pre.len > 0
    /\ Len(last.arg[1]) > 1
    /\ len = cap

\* push_char_front has just refused a one-byte char on a full string
C40_Full ==
    /\ Called("push_char_front")
    /\ last.ret = FALSE
    /\ Len(last.arg[1]) = 1
    /\ Pre.front > 0
====
